---- MODULE Spec2Model ----
(***************************************************************************)
(* nvme_manage (examples/nvme/nvme_manage/nvme_manage.c): the controller   *)
(* registry (devs, num_devs), discovery (probe_cb, attach_cb), the         *)
(* synchronous-over-asynchronous admin command pattern (counter increment, *)
(* submit, poll loop, completion callback), the namespace, format and      *)
(* firmware operations and the command loop of main.                       *)
(*                                                                         *)
(* The program is one thread, modelled by its position pc.  The driver     *)
(* (spdk_nvme_probe, spdk_nvme_ctrlr_cmd_admin_raw,                        *)
(* spdk_nvme_ctrlr_process_admin_completions, spdk_pci_addr_compare) is    *)
(* not part of the file; it is modelled from its documented boundary.      *)
(***************************************************************************)
EXTENDS Integers, Sequences, FiniteSets, TLC

\* ------------------------------------------------------------------ bounds
\* Longest bus (number of controllers discovery delivers) in Init.
MaxBus == 2
\* Failures the environment injects in one run: allocation failures,
\* rejected submissions and completions with an error status.
MaxFaults == 1

\* ------------------------------------------------------- program constants
\* #define MAX_DEVS 64
MAX_DEVS == 64

\* ------------------------------------------------------------------- state
VARIABLES
    pc,          \* position of the single thread
    bus,         \* controllers spdk_nvme_probe has still to deliver
    devs,        \* static struct dev devs[MAX_DEVS]: the slots written so far
                 \* (the others hold their static initial value, ZeroDev)
    num_devs,    \* static int num_devs
    cur,         \* the struct dev * of the function in a poll loop (index
                 \* into devs), 0 outside the poll loops
    cmd,         \* the command main's loop body is running, 0 at the prompt
    admin_q,     \* admin commands submitted to the driver, not yet reaped
    call,        \* observation of the current / last admin command call
    discovered,  \* history: bus addresses in the order attach_cb saw them
    detached,    \* history: controllers passed to spdk_nvme_detach, in order
    oob_write,   \* history: a write outside devs[0..MAX_DEVS-1] happened
    faults,      \* failures the environment may still inject
    op,          \* observation of the menu operation running / just run
    exit_cause   \* history: how the process ended, "none" while it runs

vars == << pc, bus, devs, num_devs, cur, cmd, admin_q, call, discovered,
           detached, oob_write, faults, op, exit_cause >>

\* ---------------------------------------------------------------- PCI bus
\* struct spdk_pci_addr: <<domain, bus, dev, func>>.
Addrs == { <<0, 0, 1, 1>>, <<0, 1, 0, 0>>, <<1, 0, 0, 0>> }

\* spdk_pci_addr_compare: domain, then bus, then dev, then func, each as an
\* unsigned integer; negative, zero or positive.
RECURSIVE CompareFrom(_, _, _)
CompareFrom(a, b, k) ==
    IF k > 4 THEN 0
    ELSE IF a[k] < b[k] THEN -1
    ELSE IF a[k] > b[k] THEN 1
    ELSE CompareFrom(a, b, k + 1)

spdk_pci_addr_compare(a, b) == CompareFrom(a, b, 1)

\* struct spdk_nvme_ctrlr_data, the fields the program reads: oacs.ns_manage,
\* oacs.format, oacs.firmware and fna.format_all_ns.  Three controllers that
\* tell each of the capabilities apart from the others.
CtrlrData ==
    { [ ns_manage |-> TRUE,  format |-> TRUE,  firmware |-> FALSE,
        format_all_ns |-> FALSE ],
      [ ns_manage |-> FALSE, format |-> TRUE,  firmware |-> TRUE,
        format_all_ns |-> TRUE ],
      [ ns_manage |-> TRUE,  format |-> FALSE, firmware |-> FALSE,
        format_all_ns |-> FALSE ] }

\* One controller on the bus: its address and identify data.
BusDev == [ pci_addr : Addrs, cdata : CtrlrData ]

\* A bus holds at most one controller per address.
Buses ==
    { b \in UNION { [1..n -> BusDev] : n \in 0..MaxBus } :
        \A i, j \in 1..Len(b) : i # j => b[i].pci_addr # b[j].pci_addr }

\* A bus with one controller more than the registry holds.
FullBus ==
    [ i \in 1..(MAX_DEVS + 1) |->
        [ pci_addr |-> <<0, 0, (i - 1) \div 8, (i - 1) % 8>>,
          cdata    |-> [ ns_manage |-> TRUE, format |-> TRUE,
                         firmware |-> FALSE, format_all_ns |-> FALSE ] ] ]

\* ---------------------------------------------------------------- registry
\* A zero-initialised struct dev (static storage).
ZeroDev ==
    [ pci_addr               |-> <<0, 0, 0, 0>>,
      ctrlr                  |-> 0,
      cdata                  |-> [ ns_manage |-> FALSE, format |-> FALSE,
                                   firmware |-> FALSE,
                                   format_all_ns |-> FALSE ],
      common_ns_data         |-> "NULL",
      outstanding_admin_cmds |-> 0 ]

\* devs with slot i, the first one not yet written, set to dv.
StoreDev(array, i, dv) ==
    [ k \in 0..i |-> IF k = i THEN dv ELSE array[k] ]

\* No admin command call observed yet.
NoCall ==
    [ kind     |-> "none",   \* "common" (attach_cb) or "alloc_list"
      ctrlr    |-> 0,        \* controller handle of the call
      pre      |-> 0,        \* outstanding_admin_cmds before the call
      alloc    |-> FALSE,    \* the data buffer was allocated
      submit   |-> "none",   \* "ok" or "rejected"
      polled   |-> FALSE,    \* the poll loop body ran
      cb_count |-> 0,        \* completion callback invocations
      sc       |-> "none",   \* status the callback saw
      returned |-> FALSE,    \* the function making the call returned
      frees    |-> 0,        \* spdk_free calls on the data buffer
      freed_in_flight |-> FALSE ]
                             \* one of them while the command was with the
                             \* driver, its callback not yet invoked

\* The locals a menu operation passes to the driver; -9, a value no answer
\* gives them, while not assigned.
NoArgs ==
    [ ns_id |-> -9, ses |-> -9, lbaf |-> -9, pi |-> -9, pil |-> -9,
      ms |-> -9, size |-> -9, slot |-> -9 ]

\* No menu operation observed.
NoOp ==
    [ name    |-> "none",   \* "list", "create", "delete", "attach", "detach",
                            \* "format", "firmware" or "default"
      input   |-> [ ok |-> FALSE, addr |-> <<0, 0, 0, 0>> ],
                            \* the line typed at the bus-address prompt
      dev     |-> -1,       \* what get_controller returned (-1: NULL)
      prompts |-> { },      \* the prompts shown after the bus-address prompt
      lbaf_in |-> [ ok |-> FALSE, val |-> 0 ],
                            \* the answer to the LBA format prompt
      st_size |-> -1,       \* the length fstat reported for the image file
      option_in |-> [ n |-> 0, val |-> "" ],
                            \* the answer to "Press 'Y' to continue"
      option  |-> "",       \* the local option of format_nvm when line 750
                            \* tests it ("": the line was not reached)
      fail    |-> "none",   \* why the operation stopped early
      drv     |-> "none",   \* the driver command it issued
      args    |-> NoArgs ]  \* its locals

\* Status codes a completion carries: SPDK_NVME_SC_SUCCESS or anything else.
StatusCodes == { "success", "error" }

\* ------------------------------------------------------ completion callbacks
\* Variant: the error branch returns before the decrement.
identify_common_ns_cb_early_return(dv, sc) ==
    IF sc # "success"
    THEN [ dv EXCEPT !.common_ns_data = "NULL" ]
    ELSE [ dv EXCEPT !.outstanding_admin_cmds = @ - 1 ]

\* Variant: the buffer is kept whatever the status.
identify_common_ns_cb_keeps_buffer(dv, sc) ==
    [ dv EXCEPT !.outstanding_admin_cmds = @ - 1 ]

\* identify_common_ns_cb: on a non-success status free the buffer and clear
\* the pointer; decrement the counter in either case.
identify_common_ns_cb(dv, sc) ==
    [ dv EXCEPT
        !.common_ns_data = IF sc # "success" THEN "NULL" ELSE @,
        !.outstanding_admin_cmds = @ - 1 ]

\* Variant: the counter is decremented only for a successful completion.
identify_allocated_ns_cb_success_only(dv, sc) ==
    IF sc = "success"
    THEN [ dv EXCEPT !.outstanding_admin_cmds = @ - 1 ]
    ELSE dv

\* Variant: the body of identify_common_ns_cb, which drops the common
\* namespace data on an error status.
identify_allocated_ns_cb_drops_data(dv, sc) ==
    [ dv EXCEPT
        !.common_ns_data = IF sc # "success" THEN "NULL" ELSE @,
        !.outstanding_admin_cmds = @ - 1 ]

\* identify_allocated_ns_cb: decrement the counter.
identify_allocated_ns_cb(dv, sc) ==
    [ dv EXCEPT !.outstanding_admin_cmds = @ - 1 ]

\* The callback a queued command names, applied to the struct dev that is
\* its cb_arg.
RunCallback(cb, dv, sc) ==
    IF cb = "identify_common_ns_cb"
        THEN identify_common_ns_cb(dv, sc)
        ELSE identify_allocated_ns_cb(dv, sc)

\* ------------------------------------------------------------------ driver
\* spdk_nvme_ctrlr_cmd_admin_raw accepting a command: it is queued with its
\* callback and callback argument.
cmd_admin_raw(q, ctrlr, cb, cb_arg) ==
    q \cup { [ ctrlr |-> ctrlr, cb |-> cb, cb_arg |-> cb_arg,
               state |-> "submitted", sc |-> "none" ] }

\* spdk_free of the data buffer of the call c, while the commands q are with
\* the driver.
spdk_free(c, q) ==
    [ c EXCEPT !.frees = @ + 1,
               !.freed_in_flight = @ \/ \E x \in q : x.ctrlr = c.ctrlr ]

\* Completions of a controller that are ready to be reaped.
ReadyCompletions(ctrlr) ==
    { c \in admin_q : c.ctrlr = ctrlr /\ c.state = "ready" }

\* spdk_nvme_ctrlr_process_admin_completions: invokes the callback of a ready
\* completion of this controller; a no-op when none is ready.
process_admin_completions(ctrlr) ==
    IF ReadyCompletions(ctrlr) = {}
    THEN /\ UNCHANGED << devs, admin_q >>
         /\ call' = [ call EXCEPT !.polled = TRUE ]
    ELSE \E c \in ReadyCompletions(ctrlr) :
            LET dv    == RunCallback(c.cb, devs[c.cb_arg], c.sc)
                seen  == [ call EXCEPT !.polled = TRUE,
                                       !.cb_count = @ + 1,
                                       !.sc = c.sc ]
                \* the callback frees the buffer and clears the pointer
                \* together (lines 94-95)
                freed == /\ devs[c.cb_arg].common_ns_data # "NULL"
                         /\ dv.common_ns_data = "NULL"
            IN
            /\ admin_q' = admin_q \ { c }
            /\ devs' = [ devs EXCEPT ![c.cb_arg] = dv ]
            /\ call' = IF freed THEN spdk_free(seen, admin_q \ { c })
                                ELSE seen

\* The controller completes a submitted command with some status; on success
\* the identify data has been transferred into the command's buffer.
DeviceComplete ==
    \E c \in admin_q, sc \in StatusCodes :
        /\ c.state = "submitted"
        /\ sc = "error" => faults > 0
        /\ faults' = IF sc = "error" THEN faults - 1 ELSE faults
        /\ admin_q' = (admin_q \ { c }) \cup
                        { [ c EXCEPT !.state = "ready", !.sc = sc ] }
        /\ devs' = IF /\ sc = "success"
                      /\ c.cb = "identify_common_ns_cb"
                      /\ devs[c.cb_arg].common_ns_data = "allocated"
                   THEN [ devs EXCEPT ![c.cb_arg].common_ns_data = "populated" ]
                   ELSE devs
        /\ UNCHANGED << pc, bus, num_devs, cur, cmd, call, discovered,
                        detached, oob_write, op, exit_cause >>

\* Variant: the increment before the submission is missing.
admin_begin_missing(dv) == dv

\* dev->outstanding_admin_cmds++ before a submission (lines 128 and 383).
admin_begin(dv) == [ dv EXCEPT !.outstanding_admin_cmds = @ + 1 ]

\* Variant: the loop gives up while one command is still outstanding.
poll_pending_more_than_one(dv) == dv.outstanding_admin_cmds > 1

\* Variant: the wait is skipped.
poll_pending_never(dv) == FALSE

\* The condition of both poll loops: while (dev->outstanding_admin_cmds).
poll_pending(dv) == dv.outstanding_admin_cmds # 0

\* --------------------------------------------------------------- discovery
\* main, lines 848-854: rte_eal_init; when it fails the process exits.
RteEalInit ==
    /\ pc = "start"
    /\ \E rc \in { -1, 0 } :
          /\ rc < 0 => faults > 0
          /\ faults' = IF rc < 0 THEN faults - 1 ELSE faults
          /\ pc' = IF rc < 0 THEN "exited" ELSE "probe"
          /\ exit_cause' = IF rc < 0 THEN "rte_eal_init" ELSE "none"
    /\ UNCHANGED << bus, devs, num_devs, cur, cmd, admin_q, call, discovered,
                    detached, oob_write, op >>

\* main, lines 856-859: spdk_nvme_probe returns non-zero (between two
\* controllers, or before the first); main returns 1.
ProbeFailed ==
    /\ pc = "probe"
    /\ faults > 0
    /\ faults' = faults - 1
    /\ pc' = "exited"
    /\ exit_cause' = "spdk_nvme_probe"
    /\ UNCHANGED << bus, devs, num_devs, cur, cmd, admin_q, call, discovered,
                    detached, oob_write, op >>

\* probe_cb: every probed controller is accepted.
probe_cb(d) == TRUE

\* attach_cb, lines 109-114: fill the next slot of devs.
attach_register(dv, d, ctrlr) ==
    [ dv EXCEPT !.pci_addr = d.pci_addr, !.ctrlr = ctrlr, !.cdata = d.cdata ]

\* Variant: the counter is decremented a second time.
attach_submit_failed_decrements_twice(dv) ==
    [ dv EXCEPT !.outstanding_admin_cmds = @ - 2,
                !.common_ns_data = "NULL" ]

\* attach_cb, lines 131-133: the driver rejected the identify.
attach_submit_failed(dv) ==
    [ dv EXCEPT !.outstanding_admin_cmds = @ - 1,
                !.common_ns_data = "NULL" ]

\* What can happen to the common-namespace identify of attach_cb.
Outcomes == { "alloc_fail", "rejected", "ok" }

\* spdk_nvme_probe delivers the next controller: probe_cb accepts it and
\* attach_cb runs up to its poll loop.  The slot index is not checked against
\* MAX_DEVS: beyond it the store is outside the array, and what the process
\* does next is not defined (it stops, or goes on with the memory overwritten).
ProbeAttach ==
    /\ pc = "probe"
    /\ bus # << >>
    /\ LET d     == Head(bus)
           i     == num_devs
           ctrlr == Len(discovered) + 1
       IN
       /\ bus' = Tail(bus)
       /\ IF ~probe_cb(d)
          THEN UNCHANGED << pc, devs, num_devs, cur, admin_q, call,
                            discovered, oob_write, faults >>
          ELSE IF i >= MAX_DEVS
          THEN /\ num_devs' = num_devs + 1
               /\ oob_write' = TRUE
               /\ discovered' = Append(discovered, d.pci_addr)
               /\ pc' \in { "crashed", "probe" }
               /\ UNCHANGED << devs, cur, admin_q, call, faults >>
          ELSE \E outcome \in Outcomes :
               LET reg == attach_register(ZeroDev, d, ctrlr)
                   pre == reg.outstanding_admin_cmds
                   c0  == [ NoCall EXCEPT !.kind = "common", !.ctrlr = ctrlr,
                                          !.pre = pre ]
               IN
               /\ outcome # "ok" => faults > 0
               /\ faults' = IF outcome # "ok" THEN faults - 1 ELSE faults
               /\ num_devs' = num_devs + 1
               /\ discovered' = Append(discovered, d.pci_addr)
               /\ cur' = IF outcome = "alloc_fail" THEN 0 ELSE i
               /\ oob_write' = oob_write
               /\ CASE outcome = "alloc_fail" ->
                       \* spdk_zmalloc returned NULL: return
                       /\ devs' = StoreDev(devs, i,
                                      [ reg EXCEPT !.common_ns_data = "NULL" ])
                       /\ admin_q' = admin_q
                       /\ call' = [ c0 EXCEPT !.returned = TRUE ]
                       /\ pc' = "probe"
                    [] outcome = "rejected" ->
                       \* counter++, submission != 0: counter--, free, NULL
                       /\ devs' = StoreDev(devs, i,
                                      attach_submit_failed(admin_begin(
                                        [ reg EXCEPT
                                            !.common_ns_data = "allocated" ])))
                       /\ admin_q' = admin_q
                       /\ call' = spdk_free([ c0 EXCEPT !.alloc = TRUE,
                                                        !.submit = "rejected" ],
                                             admin_q)
                       /\ pc' = "attach_poll"
                    [] outcome = "ok" ->
                       \* counter++, submission accepted
                       /\ devs' = StoreDev(devs, i, admin_begin(
                                      [ reg EXCEPT
                                          !.common_ns_data = "allocated" ]))
                       /\ admin_q' = cmd_admin_raw(admin_q, ctrlr,
                                                   "identify_common_ns_cb", i)
                       /\ call' = [ c0 EXCEPT !.alloc = TRUE, !.submit = "ok" ]
                       /\ pc' = "attach_poll"
    /\ UNCHANGED << cmd, detached, op, exit_cause >>

\* attach_cb, lines 136-138: one turn of the poll loop.
AttachPoll ==
    /\ pc = "attach_poll"
    /\ poll_pending(devs[cur])
    /\ process_admin_completions(devs[cur].ctrlr)
    /\ UNCHANGED << pc, bus, num_devs, cur, cmd, discovered, detached,
                    oob_write, faults, op, exit_cause >>

\* attach_cb, line 136 false, line 139: the loop ends and attach_cb returns.
AttachReturn ==
    /\ pc = "attach_poll"
    /\ ~poll_pending(devs[cur])
    /\ pc' = "probe"
    /\ call' = [ call EXCEPT !.returned = TRUE ]
    /\ cur' = 0
    /\ UNCHANGED << bus, devs, num_devs, cmd, admin_q, discovered,
                    detached, oob_write, faults, op, exit_cause >>

\* Variant: the operands are swapped.
cmp_devs_swapped(a, b) == spdk_pci_addr_compare(b.pci_addr, a.pci_addr)

\* cmp_devs: orders two struct dev by bus address.
cmp_devs(a, b) == spdk_pci_addr_compare(a.pci_addr, b.pci_addr)

\* Variant: the array is left as it is.
qsort_skipped(base, n) == { base }

\* qsort(base, n, sizeof(base[0]), cmp_devs): the arrays whose first n
\* elements are a rearrangement of base's, in non-descending cmp_devs order
\* (the order of elements that compare equal is not specified).
qsort(base, n) ==
    { arr \in { [ i \in DOMAIN base |-> IF i < n THEN base[p[i]] ELSE base[i] ] :
                  p \in Permutations(0..(n - 1)) } :
        \A i \in 0..(n - 2) : cmp_devs(arr[i], arr[i + 1]) <= 0 }

\* main, lines 856-863: spdk_nvme_probe has returned 0; devs is sorted in
\* place and the command loop starts (call observes its operations from here).
MainSort ==
    /\ pc = "probe"
    /\ bus = << >>
    /\ IF num_devs > MAX_DEVS
       THEN pc' = "crashed" /\ devs' = devs
       ELSE \E sorted \in qsort(devs, num_devs) :
               devs' = sorted /\ pc' = "menu"
    /\ call' = NoCall
    /\ UNCHANGED << bus, num_devs, cur, cmd, admin_q, discovered,
                    detached, oob_write, faults, op, exit_cause >>

\* ------------------------------------------------------------ command loop
\* What the operator can type at the bus-address prompt: a line that
\* spdk_pci_addr_parse rejects, or a well-formed address.
AddrInputs ==
    { [ ok |-> FALSE, addr |-> <<0, 0, 0, 0>> ] } \cup
    { [ ok |-> TRUE, addr |-> a ] : a \in Addrs }

\* Variant: with no match the first registered controller is returned.
get_controller_first_on_miss(input) ==
    LET hits == { i \in 0..(num_devs - 1) :
                    spdk_pci_addr_compare(input.addr, devs[i].pci_addr) = 0 }
    IN IF ~input.ok \/ hits = {} THEN (IF num_devs > 0 THEN 0 ELSE -1)
       ELSE CHOOSE i \in hits : \A j \in hits : i <= j

\* get_controller: -1 (NULL) when the line does not parse or no registered
\* controller has the address, else the index of the first that compares equal.
get_controller(input) ==
    LET hits == { i \in 0..(num_devs - 1) :
                    spdk_pci_addr_compare(input.addr, devs[i].pci_addr) = 0 }
    IN IF ~input.ok \/ hits = {} THEN -1
       ELSE CHOOSE i \in hits : \A j \in hits : i <= j

\* get_allocated_nsid, lines 386-388: the driver rejected the identify; the
\* list is freed and 0 returned (the counter is left as incremented).
nsid_submit_failed(dv) == dv

\* ------------------------------------------------------- operator's answers
\* What scanf makes of an answer: no number, or one of the numbers S.
ScanInputs(S) ==
    { [ ok |-> FALSE, val |-> 0 ] } \cup { [ ok |-> TRUE, val |-> v ] : v \in S }

\* struct spdk_nvme_ns_data, the fields the program reads: nlbaf (the highest
\* LBA format index) and lbaf[i].ms of its 16 entries.  Format 0 has no
\* metadata, format 1 has; the entries above nlbaf are zero.
NsData ==
    [ nlbaf |-> 1,
      lbaf  |-> [ i \in 0..15 |-> [ ms |-> IF i = 1 THEN 8 ELSE 0 ] ] ]

\* Answers to the LBA format prompt: no number, a negative number, the
\* formats of NsData, and the first index above nlbaf.
LbafInputs == ScanInputs({ -1, 0, 1, 2 })

\* Namespace ids for which spdk_nvme_ctrlr_get_ns returns a namespace.
ActiveNs == { 1 }

\* spdk_nvme_ctrlr_get_ns: the namespace, 0 (NULL) when there is none.
spdk_nvme_ctrlr_get_ns(ns_id) == IF ns_id \in ActiveNs THEN ns_id ELSE 0

\* Answers to the prompts of add_ns after the LBA format.
CreateAnswers ==
    [ size         : ScanInputs({ 1 }),
      capacity     : ScanInputs({ 1 }),
      dps_type     : ScanInputs({ 0, 1 }),
      dps_location : ScanInputs({ 1 }),
      nmic         : ScanInputs({ 1 }) ]

\* Answers to the protection information and metadata prompts of format_nvm.
FormatAnswers ==
    [ pi : ScanInputs({ 0, 1 }), pil : ScanInputs({ 1 }), ms : ScanInputs({ 1 }) ]

\* The characters the local option of format_nvm may hold.
OptionChars == { "y", "Y", "n" }

\* Answers to "Press 'Y' to continue", as scanf("%c") takes them: the first
\* character of the line typed (n = 1), or the end of the input (n = -1, the
\* value of EOF; nothing is stored).  A %c directive matches any character,
\* so scanf never returns 0 here.
OptionInputs ==
    { [ n |-> 1, val |-> c ] : c \in OptionChars } \cup
    { [ n |-> -1, val |-> "" ] }

\* The value of option after line 744: the character read, or, when scanf
\* stored nothing, whatever the uninitialized local holds.
OptionValues(in) == IF in.n = 1 THEN { in.val } ELSE OptionChars

\* The image file named at the path prompt: open fails, or fstat reports a
\* length (below 2^32: an unsigned int holds it unchanged).
FwFiles ==
    { [ exists |-> FALSE, st_size |-> 0 ] } \cup
    { [ exists |-> TRUE, st_size |-> n ] : n \in { 0, 4096, 4098 } }

\* ---------------------------------------------------------- menu operations
\* A run of a menu operation: what it did (o), the failures it took from the
\* environment (used) and where it ended the process ("none": it returned).
\* The prompts names are shown.
Ask(o, names) == [ o EXCEPT !.prompts = @ \cup names ]

\* The operation prints why and returns.
Stop(o, why) ==
    [ o |-> [ o EXCEPT !.fail = why ], used |-> 0, exit |-> "none" ]

\* Variant: a failure the environment caused ends the process.
Fault_is_fatal(o, why) ==
    [ o |-> [ o EXCEPT !.fail = why ], used |-> 1, exit |-> "exit" ]

\* The operation returns after a failure why that the environment caused.
Fault(o, why) ==
    [ o |-> [ o EXCEPT !.fail = why ], used |-> 1, exit |-> "none" ]

\* A driver call: it reports success, or a failure that is printed.
DriverCall(o, name) ==
    { [ o |-> [ o EXCEPT !.drv = name ], used |-> 0, exit |-> "none" ],
      Fault([ o EXCEPT !.drv = name ], "driver") }

\* Variant: the comparison with nlbaf is missing.
get_lba_format_unbounded(ns_data, in) == IF ~in.ok THEN -1 ELSE in.val

\* get_lba_format: -1 when the answer is no number or above nlbaf, else the
\* number read.
get_lba_format(ns_data, in) ==
    IF ~in.ok \/ in.val > ns_data.nlbaf THEN -1 ELSE in.val

\* ns_attach: exit(1) when the controller list cannot be allocated, else
\* spdk_nvme_ctrlr_attach_ns or spdk_nvme_ctrlr_detach_ns.
ns_attach(o, attachment_op, ns_id) ==
    { [ o |-> [ o EXCEPT !.fail = "alloc" ], used |-> 1, exit |-> "ns_attach" ] }
    \cup DriverCall([ o EXCEPT !.args.ns_id = ns_id ],
                    IF attachment_op = "ATTACH" THEN "attach_ns"
                                                ELSE "detach_ns")

\* ns_manage_add: exit(1) when the namespace data cannot be allocated, else
\* spdk_nvme_ctrlr_create_ns.
ns_manage_add(o) ==
    { [ o |-> [ o EXCEPT !.fail = "alloc" ], used |-> 1,
        exit |-> "ns_manage_add" ] }
    \cup DriverCall(o, "create_ns")

\* ns_manage_delete: spdk_nvme_ctrlr_delete_ns.
ns_manage_delete(o) == DriverCall(o, "delete_ns")

\* nvme_manage_format: spdk_nvme_ctrlr_format.
nvme_manage_format(o) == DriverCall(o, "format")

\* add_ns, lines 563-601: size, capacity, protection type, protection
\* location (for a non-zero type) and sharing are read, then ns_manage_add.
add_ns_answers(o, a) ==
    LET loc == IF a.dps_type.val # 0 THEN { "dps_location" } ELSE { } IN
    IF ~a.size.ok
        THEN { Stop(Ask(o, { "size" }), "invalid_input") }
    ELSE IF ~a.capacity.ok
        THEN { Stop(Ask(o, { "size", "capacity" }), "invalid_input") }
    ELSE IF ~a.dps_type.ok
        THEN { Stop(Ask(o, { "size", "capacity", "dps_type" }),
                    "invalid_input") }
    ELSE IF a.dps_type.val # 0 /\ ~a.dps_location.ok
        THEN { Stop(Ask(o, { "size", "capacity", "dps_type", "dps_location" }),
                    "invalid_input") }
    ELSE IF ~a.nmic.ok
        THEN { Stop(Ask(o, { "size", "capacity", "dps_type", "nmic" } \cup loc),
                    "invalid_input") }
    ELSE ns_manage_add(Ask(o, { "size", "capacity", "dps_type", "nmic" }
                                    \cup loc))

\* Variant: the check of common_ns_data is missing.
common_ns_data_ignored(dv) == FALSE

\* add_ns, line 552: the controller returned no common namespace data.
common_ns_data_missing(dv) == dv.common_ns_data = "NULL"

\* add_ns: the runs for an answer to the bus-address prompt.
add_ns(input) ==
    LET idx == get_controller(input)
        o0  == [ NoOp EXCEPT !.name = "create", !.input = input, !.dev = idx ]
    IN
    IF idx = -1 THEN { Stop(o0, "not_found") }
    ELSE IF ~devs[idx].cdata.ns_manage THEN { Stop(o0, "unsupported") }
    ELSE IF common_ns_data_missing(devs[idx])
        THEN { Stop(o0, "no_common_ns_data") }
    ELSE UNION {
        LET ns_lbasize == get_lba_format(NsData, in)
            o1 == [ Ask(o0, { "lbaf" }) EXCEPT !.lbaf_in = in ]
        IN IF ns_lbasize < 0
           THEN { Stop(o1, "invalid_lbaf") }
           ELSE UNION { add_ns_answers([ o1 EXCEPT !.args.lbaf = ns_lbasize ], a)
                        : a \in CreateAnswers }
        : in \in LbafInputs }

\* delete_ns: the runs for an answer to the bus-address prompt.
delete_ns(input) ==
    LET idx == get_controller(input)
        o0  == [ NoOp EXCEPT !.name = "delete", !.input = input, !.dev = idx ]
    IN
    IF idx = -1 THEN { Stop(o0, "not_found") }
    ELSE IF ~devs[idx].cdata.ns_manage THEN { Stop(o0, "unsupported") }
    ELSE UNION {
        IF ~in.ok
        THEN { Stop(Ask(o0, { "nsid" }), "invalid_input") }
        ELSE ns_manage_delete([ Ask(o0, { "nsid" }) EXCEPT
                                  !.args.ns_id = in.val ])
        : in \in ScanInputs({ 1 }) }

\* The namespace id that names every namespace of a controller: 0xFFFFFFFF,
\* which the int ns_id of format_nvm holds as -1.
SPDK_NVME_GLOBAL_NS_TAG == -1

\* format_nvm, lines 737-754: the warning, the confirmation character, then
\* nvme_manage_format for 'y' or 'Y' and "NVMe format abort" otherwise.
format_nvm_confirm(o) ==
    UNION { UNION {
        LET o1 == [ Ask(o, { "confirm" }) EXCEPT !.option_in = in ]
            o2 == [ o1 EXCEPT !.option = option ]
        IN
        IF in.n = 0
            THEN { Stop(o1, "invalid_input") }
        ELSE IF option = "y" \/ option = "Y"
            THEN nvme_manage_format(o2)
        ELSE { Stop(o2, "aborted") }
        : option \in OptionValues(in) } : in \in OptionInputs }

\* Variant: the block is missing; pi, pil and ms stay as they were.
format_nvm_pi_unassigned(o) == format_nvm_confirm(o)

\* format_nvm, lines 698-735: for an LBA format with metadata the protection
\* information, its location (for a non-zero pi, else pil = 0) and the
\* metadata setting are read; without metadata ms, pi and pil are 0.
format_nvm_pi(o) ==
    IF NsData.lbaf[o.args.lbaf].ms # 0
    THEN UNION {
        LET loc == IF a.pi.val # 0 THEN { "pil" } ELSE { } IN
        IF ~a.pi.ok
            THEN { Stop(Ask(o, { "pi" }), "invalid_input") }
        ELSE IF a.pi.val # 0 /\ ~a.pil.ok
            THEN { Stop(Ask(o, { "pi", "pil" }), "invalid_input") }
        ELSE IF ~a.ms.ok
            THEN { Stop(Ask(o, { "pi", "ms" } \cup loc), "invalid_input") }
        ELSE format_nvm_confirm(
                [ Ask(o, { "pi", "ms" } \cup loc) EXCEPT
                    !.args.pi  = a.pi.val,
                    !.args.pil = IF a.pi.val # 0 THEN a.pil.val ELSE 0,
                    !.args.ms  = a.ms.val ])
        : a \in FormatAnswers }
    ELSE format_nvm_confirm([ o EXCEPT !.args.ms = 0, !.args.pi = 0,
                                       !.args.pil = 0 ])

\* format_nvm, lines 672-696: the namespace ns must exist; the secure erase
\* setting and the LBA format are read.
format_nvm_ns(o, ns) ==
    IF ns = 0 THEN { Stop(o, "ns_not_found") }
    ELSE UNION {
        IF ~ses.ok
        THEN { Stop(Ask(o, { "ses" }), "invalid_input") }
        ELSE UNION {
            LET lbaf == get_lba_format(NsData, in)
                o1   == [ Ask(o, { "ses", "lbaf" }) EXCEPT
                            !.args.ses = ses.val, !.lbaf_in = in ]
            IN IF lbaf < 0
               THEN { Stop(o1, "invalid_lbaf") }
               ELSE format_nvm_pi([ o1 EXCEPT !.args.lbaf = lbaf ])
            : in \in LbafInputs }
        : ses \in ScanInputs({ 1 }) }

\* Variant: the global tag is the target whatever the controller supports.
format_nvm_target_always_global(o, format_all_ns) ==
    format_nvm_ns([ o EXCEPT !.args.ns_id = SPDK_NVME_GLOBAL_NS_TAG ],
                  spdk_nvme_ctrlr_get_ns(1))

\* format_nvm, lines 659-670: with format_all_ns the global tag is the target
\* and namespace 1 supplies the formats; else the namespace id is read.
format_nvm_target(o, format_all_ns) ==
    IF format_all_ns
    THEN format_nvm_ns([ o EXCEPT !.args.ns_id = SPDK_NVME_GLOBAL_NS_TAG ],
                       spdk_nvme_ctrlr_get_ns(1))
    ELSE UNION {
        IF ~in.ok
        THEN { Stop(Ask(o, { "nsid" }), "invalid_input") }
        ELSE format_nvm_ns([ Ask(o, { "nsid" }) EXCEPT !.args.ns_id = in.val ],
                           spdk_nvme_ctrlr_get_ns(in.val))
        : in \in ScanInputs({ 1, 2 }) }

\* Variant: the test of oacs.format is missing.
format_nvm_ungated(input) ==
    LET idx == get_controller(input)
        o0  == [ NoOp EXCEPT !.name = "format", !.input = input, !.dev = idx ]
    IN
    IF idx = -1 THEN { Stop(o0, "not_found") }
    ELSE format_nvm_target(o0, devs[idx].cdata.format_all_ns)

\* format_nvm: the runs for an answer to the bus-address prompt.
format_nvm(input) ==
    LET idx == get_controller(input)
        o0  == [ NoOp EXCEPT !.name = "format", !.input = input, !.dev = idx ]
    IN
    IF idx = -1 THEN { Stop(o0, "not_found") }
    ELSE IF ~devs[idx].cdata.format THEN { Stop(o0, "unsupported") }
    ELSE format_nvm_target(o0, devs[idx].cdata.format_all_ns)

\* Variant: the length is checked for a multiple of 2.
fw_size_rejected_if_odd(st_size) == st_size % 2 # 0

\* update_firmware_image, lines 804-808: the length check on the image.
fw_size_rejected(st_size) == st_size % 4 # 0

\* update_firmware_image, lines 783-841, for the image file named: open,
\* fstat, the length check, size = st_size, the buffer, the
\* read, the slot prompt and spdk_nvme_ctrlr_update_firmware.
update_firmware_file(o, file) ==
    IF ~file.exists THEN { Stop(Ask(o, { "path" }), "open") }
    ELSE LET o1 == [ Ask(o, { "path" }) EXCEPT !.st_size = file.st_size ]
             o2 == [ o1 EXCEPT !.args.size = file.st_size ]
         IN
         { Fault(Ask(o, { "path" }), "fstat") } \cup
         ( IF fw_size_rejected(file.st_size) THEN { Stop(o1, "size") }
           ELSE { Fault(o2, "alloc"), Fault(o2, "read") } \cup
                UNION {
                    IF ~slot.ok
                    THEN { Stop(Ask(o2, { "slot" }), "invalid_input") }
                    ELSE DriverCall([ Ask(o2, { "slot" }) EXCEPT
                                        !.args.slot = slot.val ],
                                    "update_firmware")
                    : slot \in ScanInputs({ 2 }) } )

\* update_firmware_image: the runs for an answer to the bus-address prompt.
update_firmware_image(input) ==
    LET idx == get_controller(input)
        o0  == [ NoOp EXCEPT !.name = "firmware", !.input = input,
                              !.dev = idx ]
    IN
    IF idx = -1 THEN { Stop(o0, "not_found") }
    ELSE IF ~devs[idx].cdata.firmware THEN { Stop(o0, "unsupported") }
    ELSE UNION { update_firmware_file(o0, file) : file \in FwFiles }

\* The run ends: the operation returns into main's loop, or the process ends.
Finish(run) ==
    /\ run.used <= faults
    /\ faults' = faults - run.used
    /\ op' = run.o
    /\ exit_cause' = run.exit
    /\ pc' = IF run.exit = "none" THEN "op_done" ELSE "exited"

\* case 1: display_controller_list.
MenuList ==
    /\ pc = "menu"
    /\ pc' = "op_done"
    /\ cmd' = 1
    /\ op' = [ NoOp EXCEPT !.name = "list" ]
    /\ UNCHANGED << bus, devs, num_devs, cur, admin_q, call, discovered,
                    detached, oob_write, faults, exit_cause >>

\* default: a number that is no command.
MenuDefault ==
    /\ pc = "menu"
    /\ pc' = "op_done"
    /\ cmd' = 9
    /\ op' = [ NoOp EXCEPT !.name = "default" ]
    /\ UNCHANGED << bus, devs, num_devs, cur, admin_q, call, discovered,
                    detached, oob_write, faults, exit_cause >>

\* scanf("%d", &cmd) read no number: main returns 0 from inside the loop.
MenuInvalid ==
    /\ pc = "menu"
    /\ pc' = "exited"
    /\ exit_cause' = "invalid_command"
    /\ UNCHANGED << bus, devs, num_devs, cur, cmd, admin_q, call, discovered,
                    detached, oob_write, faults, op >>

\* case 8, lines 913-920: the loop ends and every registered controller is
\* passed to spdk_nvme_detach, in array order.
MenuQuit ==
    /\ pc = "menu"
    /\ detached' = detached \o [ k \in 1..num_devs |-> devs[k - 1].ctrlr ]
    /\ pc' = "exited"
    /\ exit_cause' = "quit"
    /\ UNCHANGED << bus, devs, num_devs, cur, cmd, admin_q, call, discovered,
                    oob_write, faults, op >>

\* case 2: add_ns.
AddNs ==
    /\ pc = "menu"
    /\ \E input \in AddrInputs : \E run \in add_ns(input) : Finish(run)
    /\ cmd' = 2
    /\ UNCHANGED << bus, devs, num_devs, cur, admin_q, call, discovered,
                    detached, oob_write >>

\* case 3: delete_ns.
DeleteNs ==
    /\ pc = "menu"
    /\ \E input \in AddrInputs : \E run \in delete_ns(input) : Finish(run)
    /\ cmd' = 3
    /\ UNCHANGED << bus, devs, num_devs, cur, admin_q, call, discovered,
                    detached, oob_write >>

\* case 6: format_nvm.
FormatNvm ==
    /\ pc = "menu"
    /\ \E input \in AddrInputs : \E run \in format_nvm(input) : Finish(run)
    /\ cmd' = 6
    /\ UNCHANGED << bus, devs, num_devs, cur, admin_q, call, discovered,
                    detached, oob_write >>

\* case 7: update_firmware_image.
UpdateFirmwareImage ==
    /\ pc = "menu"
    /\ \E input \in AddrInputs :
          \E run \in update_firmware_image(input) : Finish(run)
    /\ cmd' = 7
    /\ UNCHANGED << bus, devs, num_devs, cur, admin_q, call, discovered,
                    detached, oob_write >>

\* case 4 / case 5: attach_and_detach_ns up to the poll loop of
\* get_allocated_nsid.
AttachAndDetachNs ==
    /\ pc = "menu"
    /\ \E attachment_op \in { "ATTACH", "DETACH" }, input \in AddrInputs :
       LET idx == get_controller(input)
           o0  == [ NoOp EXCEPT
                      !.name = IF attachment_op = "ATTACH" THEN "attach"
                                                           ELSE "detach",
                      !.input = input, !.dev = idx ]
       IN
       /\ cmd' = IF attachment_op = "ATTACH" THEN 4 ELSE 5
       /\ IF idx = -1 \/ ~devs[idx].cdata.ns_manage
          THEN \* "Invalid controller PCI Address." or "does not support"
               /\ op' = [ o0 EXCEPT !.fail = IF idx = -1 THEN "not_found"
                                                         ELSE "unsupported" ]
               /\ pc' = "op_done"
               /\ UNCHANGED << devs, cur, admin_q, call, faults >>
          ELSE \E outcome \in Outcomes :
               LET pre == devs[idx].outstanding_admin_cmds
                   c0  == [ NoCall EXCEPT !.kind = "alloc_list",
                                          !.ctrlr = devs[idx].ctrlr,
                                          !.pre = pre ]
               IN
               /\ outcome # "ok" => faults > 0
               /\ faults' = IF outcome # "ok" THEN faults - 1 ELSE faults
               /\ cur' = IF outcome = "ok" THEN idx ELSE 0
               /\ CASE outcome = "alloc_fail" ->
                       \* ns_list == NULL: return 0
                       /\ UNCHANGED << devs, admin_q >>
                       /\ call' = [ c0 EXCEPT !.returned = TRUE ]
                       /\ op' = [ o0 EXCEPT !.fail = "alloc" ]
                       /\ pc' = "op_done"
                    [] outcome = "rejected" ->
                       \* counter++, submission != 0: free, return 0
                       /\ devs' = [ devs EXCEPT ![idx] =
                                      nsid_submit_failed(admin_begin(@)) ]
                       /\ admin_q' = admin_q
                       /\ call' = spdk_free([ c0 EXCEPT
                                               !.alloc = TRUE,
                                               !.submit = "rejected",
                                               !.returned = TRUE ], admin_q)
                       /\ op' = [ o0 EXCEPT !.fail = "submit" ]
                       /\ pc' = "op_done"
                    [] outcome = "ok" ->
                       /\ devs' = [ devs EXCEPT ![idx] = admin_begin(@) ]
                       /\ admin_q' = cmd_admin_raw(admin_q, devs[idx].ctrlr,
                                                   "identify_allocated_ns_cb",
                                                   idx)
                       /\ call' = [ c0 EXCEPT !.alloc = TRUE, !.submit = "ok" ]
                       /\ op' = o0
                       /\ pc' = "nsid_poll"
    /\ UNCHANGED << bus, num_devs, discovered, detached, oob_write,
                    exit_cause >>

\* get_allocated_nsid, lines 391-393: one turn of the poll loop.
NsidPoll ==
    /\ pc = "nsid_poll"
    /\ poll_pending(devs[cur])
    /\ process_admin_completions(devs[cur].ctrlr)
    /\ UNCHANGED << pc, bus, num_devs, cur, cmd, discovered, detached,
                    oob_write, faults, op, exit_cause >>

\* get_allocated_nsid from line 395 and the rest of attach_and_detach_ns:
\* the loop ends, the list is printed and freed and a namespace id is read
\* (0 stands for no number or the number 0); with a non-zero id ns_attach
\* runs, which ends the process when its controller list cannot be allocated.
NsidReturn ==
    /\ pc = "nsid_poll"
    /\ ~poll_pending(devs[cur])
    /\ call' = spdk_free([ call EXCEPT !.returned = TRUE ], admin_q)
    /\ \E nsid \in { 0, 1 } :
          IF nsid = 0
          THEN Finish(Stop(Ask(op, { "nsid" }), "invalid_input"))
          ELSE \E run \in ns_attach(Ask(op, { "nsid" }),
                                    IF cmd = 4 THEN "ATTACH" ELSE "DETACH",
                                    nsid) : Finish(run)
    /\ cur' = 0
    /\ UNCHANGED << bus, devs, num_devs, cmd, admin_q, discovered,
                    detached, oob_write >>

\* main, lines 907-910: the rest of the loop body; the menu is shown and the
\* next command awaited.  At the end of the input the getchar loop of line
\* 907 never sees a newline and does not end.
MenuPrompt ==
    /\ pc = "op_done"
    /\ op.option_in.n # -1
    /\ pc' = "menu"
    /\ cmd' = 0
    /\ op' = NoOp
    /\ call' = NoCall
    /\ UNCHANGED << bus, devs, num_devs, cur, admin_q, discovered, detached,
                    oob_write, faults, exit_cause >>

\* ----------------------------------------------------------- specification
InitWith(b, f) ==
    /\ pc = "start"
    /\ bus = b
    /\ devs = << >>
    /\ num_devs = 0
    /\ cur = 0
    /\ cmd = 0
    /\ admin_q = { }
    /\ call = NoCall
    /\ discovered = << >>
    /\ detached = << >>
    /\ oob_write = FALSE
    /\ faults = f
    /\ op = NoOp
    /\ exit_cause = "none"

\* main before rte_eal_init, on a bus of at most MaxBus controllers.
Init == \E b \in Buses : InitWith(b, MaxFaults)

\* The same, or on a bus of MAX_DEVS + 1 controllers (explored fault-free).
InitCap == Init \/ InitWith(FullBus, 0)

Next ==
    \/ RteEalInit
    \/ ProbeFailed
    \/ ProbeAttach
    \/ DeviceComplete
    \/ AttachPoll
    \/ AttachReturn
    \/ MainSort
    \/ MenuList
    \/ MenuDefault
    \/ MenuInvalid
    \/ MenuQuit
    \/ AddNs
    \/ DeleteNs
    \/ AttachAndDetachNs
    \/ NsidPoll
    \/ NsidReturn
    \/ FormatNvm
    \/ UpdateFirmwareImage
    \/ MenuPrompt

Spec == Init /\ [][Next]_vars

SpecCap == InitCap /\ [][Next]_vars

\* The thread keeps running while it has a step to take, and the controller
\* completes every command it was given.
ThreadStep ==
    \/ RteEalInit
    \/ ProbeAttach
    \/ AttachPoll
    \/ AttachReturn
    \/ MainSort
    \/ NsidPoll
    \/ NsidReturn

Fairness ==
    /\ WF_vars(ThreadStep)
    /\ WF_vars(DeviceComplete)

SpecFair == Init /\ [][Next]_vars /\ Fairness

\* ------------------------------------------------------------------ claims
PollPcs == { "attach_poll", "nsid_poll" }

\* The slot of devs that holds a controller handle (handles are unique).
DevOf(ctrlr) == CHOOSE i \in DOMAIN devs : devs[i].ctrlr = ctrlr

\* The struct dev of the current / last admin command call.
CallDev == devs[DevOf(call.ctrlr)]

\* C1: when the driver rejects the submission of an admin command (the
\* common-namespace identify of attach_cb, the allocated-namespace-list
\* identify of get_allocated_nsid), the poll loop body never runs for that
\* call and outstanding_admin_cmds is back at its value before the call.
C1_RejectedSubmissionCompensated ==
    call.submit = "rejected" =>
        /\ ~call.polled
        /\ CallDev.outstanding_admin_cmds = call.pre

\* C2: whatever happened on the controller before (rejected submissions and
\* error completions included), once the completion callback of a successfully
\* submitted command has been invoked its one time, the blocking wait ends:
\* the condition of the poll loop is false, so the loop is left.
C2_CallbackEndsWait ==
    ( /\ pc \in PollPcs
      /\ call.submit = "ok"
      /\ call.cb_count = 1 ) => ~poll_pending(devs[cur])

\* C3: for a successfully submitted admin command the completion callback
\* takes exactly one off the controller's outstanding_admin_cmds (and off no
\* other controller's), for a success and for an error status alike; and
\* when the function that issued the command has returned, the counter is
\* what it was before the call.
C3_CounterRestored ==
    /\ []( call.submit = "ok" /\ call.returned =>
             CallDev.outstanding_admin_cmds = call.pre )
    /\ [][ call'.cb_count = call.cb_count + 1 =>
             \A i \in DOMAIN devs :
                devs'[i].outstanding_admin_cmds =
                    devs[i].outstanding_admin_cmds - (IF i = cur THEN 1 ELSE 0)
         ]_vars

\* C3 witness: a call whose command completed with an error status has
\* returned with the counter restored.
C3_Witness ==
    /\ call.submit = "ok"
    /\ call.returned
    /\ call.sc = "error"
    /\ call.cb_count = 1
    /\ CallDev.outstanding_admin_cmds = call.pre

\* C4: once an admin command has been submitted successfully, the issuing
\* function does not return before the command's completion callback has
\* run; while the callback has not run, every step leaves the thread in the
\* poll loop (no timeout, no cancellation).
C4_NoReturnBeforeCallback ==
    /\ []( call.submit = "ok" /\ call.returned => call.cb_count >= 1 )
    /\ [][ ( /\ pc \in PollPcs
             /\ call.submit = "ok"
             /\ call.cb_count = 0 ) => pc' = pc ]_vars

\* C4 witness: the thread has polled for a submitted command whose completion
\* has not arrived, and is still in the loop.
C4_Witness ==
    /\ pc \in PollPcs
    /\ call.submit = "ok"
    /\ call.polled
    /\ call.cb_count = 0
    /\ admin_q # { }

\* C5: in every reachable state at most one admin command, over all
\* registered controllers, is submitted and not yet completed.
C5_AtMostOneInFlight == Cardinality(admin_q) <= 1

\* C5 witness: a second admin command of the run is in flight, on a
\* controller other than the first registered one.
C5_Witness ==
    /\ pc = "nsid_poll"
    /\ num_devs >= 2
    /\ \E c \in admin_q : c.cb_arg >= 1 /\ c.cb = "identify_allocated_ns_cb"

\* C6: the registry never holds more than MAX_DEVS controllers and nothing
\* is stored outside devs[0..MAX_DEVS-1], however many controllers discovery
\* delivers (a 65th is refused).
C6_CapacityEnforced ==
    /\ num_devs <= MAX_DEVS
    /\ ~oob_write

DiscoveryPcs == { "start", "probe", "attach_poll" }

\* Discovery has not completed: main is before its qsort, or it ended there
\* (rte_eal_init or spdk_nvme_probe failed).
Discovering ==
    \/ pc \in DiscoveryPcs
    \/ exit_cause \in { "rte_eal_init", "spdk_nvme_probe" }

\* The bus addresses of the registry in the order foreach_dev visits them.
StoredOrder == [ k \in 1..Len(discovered) |-> devs[k - 1].pci_addr ]

\* C7: after discovery, whatever the order in which the controllers were
\* delivered, the registry holds exactly one handle per bus address on the
\* bus, each with the controller that was delivered for that address, and
\* foreach_dev visits them in strictly ascending bus-address order.
C7_SortedOnePerAddress ==
    ~Discovering =>
        /\ num_devs = Len(discovered)
        /\ DOMAIN devs = 0..(num_devs - 1)
        /\ \A k \in 1..Len(discovered) :
              Cardinality({ i \in DOMAIN devs :
                              /\ devs[i].pci_addr = discovered[k]
                              /\ devs[i].ctrlr = k }) = 1
        /\ \A i \in 0..(num_devs - 2) :
              spdk_pci_addr_compare(devs[i].pci_addr, devs[i + 1].pci_addr) < 0

\* C7 witness: two controllers were delivered in descending address order
\* and the command loop has started.
C7_Witness ==
    /\ pc = "menu"
    /\ num_devs = 2
    /\ spdk_pci_addr_compare(discovered[1], discovered[2]) > 0
    /\ devs[0].ctrlr = 2

\* C8 as stated: the stored order of the registry always equals discovery
\* order (the sort by address leaves it alone).
C8_StoredOrderIsDiscoveryOrder == StoredOrder = discovered

\* C8 amended: the stored order equals discovery order while discovery runs;
\* main then sorts devs itself, in place, so from the first prompt of the
\* command loop on the stored order is ascending bus-address order, and no
\* command changes it again.
C8_StoredOrderUntilSorted ==
    /\ []( Discovering => StoredOrder = discovered )
    /\ []( ~Discovering =>
             \A k \in 1..(Len(discovered) - 1) :
                spdk_pci_addr_compare(StoredOrder[k], StoredOrder[k + 1]) <= 0 )
    /\ [][ ~Discovering => StoredOrder' = StoredOrder ]_vars

\* C8 witness: the command loop runs on a registry whose stored order
\* differs from discovery order.
C8_Witness ==
    /\ pc = "menu"
    /\ StoredOrder # discovered
    /\ { StoredOrder[k] : k \in 1..Len(discovered) } =
       { discovered[k] : k \in 1..Len(discovered) }

\* Controllers discovery hands to attach_cb: the delivered ones and those to
\* come; only the delivered ones when rte_eal_init or spdk_nvme_probe failed.
NumOnBus ==
    IF exit_cause \in { "rte_eal_init", "spdk_nvme_probe" }
    THEN Len(discovered)
    ELSE Len(bus) + Len(discovered)

\* Controller k (in delivery order) is Ready: attach_cb has run for it and
\* returned, and the registry holds it under its address.
Ready(k) ==
    /\ Len(discovered) >= k
    /\ ~(pc = "attach_poll" /\ call.ctrlr = k)
    /\ \E i \in DOMAIN devs :
          devs[i].ctrlr = k /\ devs[i].pci_addr = discovered[k]

\* C9: every controller handed to attach_cb eventually is Ready, whatever
\* happens to its common-namespace identify (allocation failure, rejected
\* submission, success or error completion), given that the controller
\* completes a submitted command.
C9_EveryDeviceReady ==
    <>( \A k \in 1..NumOnBus : Ready(k) )

\* C9 witness: attach_cb returned for a controller whose identify completed
\* with an error status, and the controller is Ready.
C9_Witness ==
    /\ pc = "probe"
    /\ call.kind = "common"
    /\ call.sc = "error"
    /\ call.returned
    /\ Ready(call.ctrlr)

\* C10: when attach_cb has returned for a controller, its common_ns_data is
\* populated if the buffer was allocated, the identify was accepted and it
\* completed with a success status, and is NULL in every other case.
C10_CommonNsDataIffSuccess ==
    ( call.kind = "common" /\ call.returned ) =>
        IF call.alloc /\ call.submit = "ok" /\ call.sc = "success"
        THEN CallDev.common_ns_data = "populated"
        ELSE CallDev.common_ns_data = "NULL"

\* C10 witness: attach_cb returned after an identify that was accepted and
\* completed with an error status.
C10_Witness ==
    /\ call.kind = "common"
    /\ call.returned
    /\ call.alloc
    /\ call.submit = "ok"
    /\ call.sc = "error"
    /\ call.cb_count = 1

\* A menu operation has run to its end: it returned into main's loop, or it
\* ended the process.
OpEnded == op.name # "none" /\ pc \in { "op_done", "exited" }

\* The struct dev get_controller returned to the operation.
OpDev == devs[op.dev]

\* The capability the operation asks of its controller is there.
OpSupported ==
    CASE op.name \in { "create", "delete", "attach", "detach" } ->
            OpDev.cdata.ns_manage
      [] op.name = "format"   -> OpDev.cdata.format
      [] op.name = "firmware" -> OpDev.cdata.firmware
      [] OTHER -> FALSE

\* The operation went on after its checks of the controller: it showed its
\* next prompt, or started the identify of get_allocated_nsid.
OpProceeded == op.prompts # { } \/ call.kind = "alloc_list"

\* An operation of the list of C11 has ended that found a controller with the
\* capability it needs and without common-namespace data.
OnCtrlrWithoutCommonNsData ==
    /\ OpEnded
    /\ op.name \in { "format", "create", "delete", "attach", "detach" }
    /\ op.dev >= 0
    /\ OpSupported
    /\ OpDev.common_ns_data = "NULL"

\* C11 as stated: on a controller without common-namespace data format,
\* create, delete, attach and detach each go on towards their command; the
\* absence of the data stops none of them.
C11_AbsenceNeverBlocks == OnCtrlrWithoutCommonNsData => OpProceeded

\* C11 amended: on a controller without common-namespace data format, delete,
\* attach and detach go on towards their command; create, which takes the LBA
\* formats from that data, is refused: it asks nothing, issues no command and
\* returns to the command loop.
C11_AbsenceBlocksOnlyCreate ==
    OnCtrlrWithoutCommonNsData =>
        IF op.name = "create"
        THEN /\ ~OpProceeded
             /\ op.drv = "none"
             /\ pc = "op_done"
        ELSE OpProceeded

\* C11 witness: a format command was issued to a controller without
\* common-namespace data.
C11_Witness ==
    /\ OnCtrlrWithoutCommonNsData
    /\ op.name = "format"
    /\ op.drv = "format"

\* What attach_cb stored for controller k: its bus address, its identify
\* data and its common-namespace data.
Attached(k) ==
    LET dv == devs[DevOf(k)]
    IN [ pci_addr |-> dv.pci_addr, cdata |-> dv.cdata,
         common_ns_data |-> dv.common_ns_data ]

\* C12: once attach_cb has returned for a controller, no step (the attach of
\* another controller, the sort, list, create, delete, attach, detach, format,
\* firmware update, shutdown) changes the bus address, the identify data or
\* the common-namespace data stored for it; and no common-namespace identify
\* is submitted for it again, so data that was unavailable stays unavailable.
C12_AttachedDataImmutable ==
    [][ \A k \in 1..Len(discovered) :
          Ready(k) =>
             /\ Attached(k)' = Attached(k)
             /\ \A c \in admin_q' \ admin_q :
                   c.ctrlr = k => c.cb # "identify_common_ns_cb"
      ]_vars

\* C12 witness: an operation of the command loop had an admin command
\* completed with an error status on a controller whose common-namespace data
\* is populated, and has ended.
C12_Witness ==
    /\ OpEnded
    /\ call.kind = "alloc_list"
    /\ call.sc = "error"
    /\ CallDev.common_ns_data = "populated"

\* The operations that begin with get_controller.
NsOps == { "create", "delete", "attach", "detach", "format", "firmware" }

\* The slots of the registry whose bus address is the one typed.
Matches == { i \in 0..(num_devs - 1) : devs[i].pci_addr = op.input.addr }

\* C13: in create, delete, attach, detach, format and firmware update, when
\* the line typed at the bus-address prompt is malformed or names no
\* registered controller, get_controller returns NULL, the operation shows no
\* further prompt, issues neither an admin command nor a driver command,
\* leaves the registry as it was and returns into the command loop; when the
\* address is registered, the controller returned is the first whose address
\* equals it.
C13_MissIssuesNothing ==
    /\ []( op.name \in NsOps =>
             IF ~op.input.ok \/ Matches = { }
             THEN /\ op.dev = -1
                  /\ op.prompts = { }
                  /\ op.drv = "none"
                  /\ call = NoCall
                  /\ admin_q = { }
                  /\ pc = "op_done"
             ELSE /\ op.dev \in Matches
                  /\ \A j \in Matches : op.dev <= j )
    /\ [][ ( op'.name \in NsOps /\ op' # op /\ op'.dev = -1 ) =>
             /\ devs' = devs
             /\ num_devs' = num_devs
             /\ detached' = detached
             /\ pc' = "op_done" ]_vars

\* C13 witness: format was given a well-formed address that no registered
\* controller has, on a registry that is not empty, and returned.
C13_Witness ==
    /\ pc = "op_done"
    /\ op.name = "format"
    /\ op.input.ok
    /\ num_devs > 0
    /\ Matches = { }
    /\ op.dev = -1

\* update_firmware_image has ended after fstat reported the image's length.
FirmwareSized == OpEnded /\ op.name = "firmware" /\ op.st_size >= 0

\* C14, the part on lengths that are no multiple of 4: such an image is
\* rejected before the buffer is allocated, the slot is asked for or a
\* command is issued, and spdk_nvme_ctrlr_update_firmware is only ever called
\* with a size that is a multiple of 4.
FirmwareLengthChecked ==
    /\ ( FirmwareSized /\ op.st_size % 4 # 0 ) =>
          /\ op.drv = "none"
          /\ op.args.size = NoArgs.size
          /\ "slot" \notin op.prompts
          /\ pc = "op_done"
    /\ op.drv = "update_firmware" =>
          /\ op.args.size % 4 = 0
          /\ op.args.size = op.st_size

\* C14 as stated: in addition, an image whose length is a multiple of 4
\* always gets to the slot prompt.
C14_MultipleOf4ReachesSlotPrompt ==
    /\ FirmwareLengthChecked
    /\ ( FirmwareSized /\ op.st_size % 4 = 0 ) => "slot" \in op.prompts

\* C14 amended: an image whose length is a multiple of 4 passes the length
\* check and gets to the slot prompt unless the buffer for it cannot be
\* allocated or the file cannot be read in full; then the operation prints
\* the failure and returns, with no command issued.
C14_MultipleOf4PassesLengthCheck ==
    /\ FirmwareLengthChecked
    /\ ( FirmwareSized /\ op.st_size % 4 = 0 ) =>
          \/ "slot" \in op.prompts
          \/ /\ op.fail \in { "alloc", "read" }
             /\ op.drv = "none"
             /\ pc = "op_done"

\* C14 witness: spdk_nvme_ctrlr_update_firmware was called with an image of
\* 4096 bytes, after the slot prompt.
C14_Witness ==
    /\ FirmwareSized
    /\ op.st_size = 4096
    /\ "slot" \in op.prompts
    /\ op.drv = "update_firmware"
    /\ op.args.size = 4096

\* format_nvm has ended after get_lba_format accepted an LBA format.
FormatChosen == OpEnded /\ op.name = "format" /\ op.args.lbaf # NoArgs.lbaf

\* C15: in format_nvm, when the LBA format chosen has no metadata
\* (lbaf[lbaf].ms is 0) the protection information, location and metadata
\* prompts are not shown and a command that is issued carries pi = 0, pil = 0
\* and ms = 0; when it has metadata and the operator answers pi = 0, the
\* location prompt is not shown and pil is 0.
C15_NoMetadataNoProtection ==
    FormatChosen =>
        IF NsData.lbaf[op.args.lbaf].ms = 0
        THEN /\ op.prompts \cap { "pi", "pil", "ms" } = { }
             /\ op.drv = "format" =>
                   op.args.pi = 0 /\ op.args.pil = 0 /\ op.args.ms = 0
        ELSE /\ "pi" \in op.prompts
             /\ op.args.pi = 0 =>
                   "pil" \notin op.prompts /\ op.args.pil = 0
             /\ op.drv = "format" =>
                   /\ "ms" \in op.prompts
                   /\ op.args.pi # 0 => "pil" \in op.prompts

\* C15 witness: a format command was issued for an LBA format without
\* metadata, with pi, pil and ms all 0 and none of the three prompts shown.
C15_Witness ==
    /\ FormatChosen
    /\ NsData.lbaf[op.args.lbaf].ms = 0
    /\ op.drv = "format"
    /\ op.args.pi = 0 /\ op.args.pil = 0 /\ op.args.ms = 0
    /\ op.prompts \cap { "pi", "pil", "ms" } = { }

\* C16 as stated: a format command for a controller without format_all_ns is
\* issued only after the operation had the allocated-namespace-list identify
\* submitted and completed.
C16_FormatListsNamespacesFirst ==
    ( op.drv = "format" /\ ~OpDev.cdata.format_all_ns ) =>
        /\ call.kind = "alloc_list"
        /\ call.submit = "ok"
        /\ call.cb_count >= 1

\* C16 amended: format_nvm submits no admin command of its own.  For a
\* controller without format_all_ns it asks the operator for the namespace
\* id and looks the namespace up in the driver; a command is issued only for
\* an id the driver knows, and carries that id.  With format_all_ns nothing
\* is asked and the command carries the global namespace tag.  The
\* allocated-namespace-list identify belongs to attach and detach alone.
C16_FormatAsksForNamespaceId ==
    /\ call.kind = "alloc_list" => op.name \in { "attach", "detach" }
    /\ op.name = "format" =>
          /\ call = NoCall
          /\ admin_q = { }
          /\ ( op.dev >= 0 /\ OpSupported ) =>
                IF OpDev.cdata.format_all_ns
                THEN /\ "nsid" \notin op.prompts
                     /\ op.args.ns_id = SPDK_NVME_GLOBAL_NS_TAG
                ELSE /\ "nsid" \in op.prompts
                     /\ op.drv = "format" =>
                           /\ op.args.ns_id \in ActiveNs
                           /\ spdk_nvme_ctrlr_get_ns(op.args.ns_id) # 0

\* C16 witness: a format command was issued to a controller without
\* format_all_ns, for the namespace id the operator typed, with no admin
\* command submitted by the operation.
C16_Witness ==
    /\ OpEnded
    /\ op.drv = "format"
    /\ ~OpDev.cdata.format_all_ns
    /\ "nsid" \in op.prompts
    /\ op.args.ns_id = 1
    /\ call = NoCall

\* The process ended from inside discovery or a menu operation (not by the
\* command loop's own quit or unreadable command).
EndedInside == pc = "exited" /\ exit_cause \notin { "quit", "invalid_command" }

\* A menu operation has ended on a failure.
OpFailed == OpEnded /\ op.fail # "none"

\* ns_attach could not allocate its controller list.
CtrlrListAllocFailed ==
    /\ op.name \in { "attach", "detach" }
    /\ op.fail = "alloc"
    /\ "nsid" \in op.prompts

\* ns_manage_add could not allocate its namespace data.
NsDataAllocFailed ==
    /\ op.name = "create"
    /\ op.fail = "alloc"

C18_DetachedOnEveryExit ==
    /\ pc # "exited" => detached = << >>
    /\ ( pc = "exited" /\ ~Discovering ) =>
          /\ Len(detached) = num_devs
          /\ \A i \in 0..(num_devs - 1) :
                Cardinality({ k \in 1..Len(detached) :
                                detached[k] = devs[i].ctrlr }) = 1

\* C19: in every reachable state outstanding_admin_cmds of every controller
\* is zero or more.
C19_CounterNeverNegative ==
    \A i \in DOMAIN devs : devs[i].outstanding_admin_cmds >= 0

\* C19 witness: a completion callback has taken the counter of its controller
\* from one down to zero.
C19_Witness ==
    /\ call.submit = "ok"
    /\ call.cb_count = 1
    /\ call.pre = 0
    /\ CallDev.outstanding_admin_cmds = 0

\* The answer to the LBA format prompt names a format of the namespace data.
LbafInRange == op.lbaf_in.ok /\ op.lbaf_in.val \in 0..NsData.nlbaf

\* C20: in create and in format, an answer to the LBA format prompt that is
\* no number, negative or above nlbaf ends the operation there: no further
\* prompt, no command, back to the command loop; and a create or format
\* command is issued only with the index typed, which is in 0..nlbaf.
C20_LbaFormatInRange ==
    /\ ( OpEnded /\ op.name \in { "create", "format" }
                 /\ "lbaf" \in op.prompts /\ ~LbafInRange ) =>
          /\ op.drv = "none"
          /\ op.prompts \cap { "size", "capacity", "dps_type", "dps_location",
                               "nmic", "pi", "pil", "ms", "confirm" } = { }
          /\ pc = "op_done"
    /\ op.drv \in { "create_ns", "format" } =>
          /\ "lbaf" \in op.prompts
          /\ LbafInRange
          /\ op.args.lbaf = op.lbaf_in.val

\* C20 witness: create was answered -1 at the LBA format prompt and returned
\* without a command.
C20_Witness ==
    /\ OpEnded
    /\ op.name = "create"
    /\ "lbaf" \in op.prompts
    /\ op.lbaf_in.ok
    /\ op.lbaf_in.val = -1
    /\ op.drv = "none"

\* The command of the current call is with the driver: submitted, and its
\* completion callback not yet invoked.
CallInFlight == \E c \in admin_q : c.ctrlr = call.ctrlr

\* C21: the data buffer of an admin command call (the common-namespace buffer
\* of attach_cb, the namespace list of get_allocated_nsid) is not freed while
\* the command is with the driver and its callback has not run, and is freed
\* at most once whatever the path: once when the submission is rejected, once
\* when get_allocated_nsid has waited for the completion (success or error),
\* once by identify_common_ns_cb on an error status, and not at all when the
\* common-namespace identify succeeded (the controller keeps the data).
C21_BufferOwnedByCaller ==
    /\ ~call.freed_in_flight
    /\ call.frees <= 1
    /\ call.frees = 1 => call.alloc
    /\ CallInFlight => call.frees = 0
    /\ call.submit = "rejected" => call.frees = 1
    /\ ( call.kind = "alloc_list" /\ call.submit = "ok" ) =>
          call.frees = ( IF call.returned THEN 1 ELSE 0 )
    /\ ( call.kind = "common" /\ call.submit = "ok" ) =>
          call.frees = ( IF call.sc = "error" THEN 1 ELSE 0 )

\* C21 witness: get_allocated_nsid freed its namespace list, once, after its
\* identify had completed with an error status.
C21_Witness ==
    /\ call.kind = "alloc_list"
    /\ call.submit = "ok"
    /\ call.sc = "error"
    /\ call.cb_count = 1
    /\ call.returned
    /\ call.frees = 1
    /\ ~call.freed_in_flight

\* The driver commands of each gated operation.
DrvOf ==
    [ create |-> { "create_ns" }, delete |-> { "delete_ns" },
      attach |-> { "attach_ns" }, detach |-> { "detach_ns" },
      format |-> { "format" }, firmware |-> { "update_firmware" } ]

\* The operation found its controller, and the controller does not advertise
\* the capability the operation needs.
OpRefused == op.name \in NsOps /\ op.dev >= 0 /\ ~OpSupported

\* C22: create, delete, attach and detach issue a command (the identify of
\* get_allocated_nsid included) only to a controller with oacs.ns_manage,
\* format only to one with oacs.format, firmware update only to one with
\* oacs.firmware; on a controller without the capability the operation
\* returns after the message, with no prompt shown, no call of
\* get_allocated_nsid and no command with the driver.
C22_GatedByCapability ==
    /\ OpRefused =>
          /\ op.fail = "unsupported"
          /\ op.drv = "none"
          /\ op.prompts = { }
          /\ call = NoCall
          /\ admin_q = { }
          /\ pc = "op_done"
    /\ op.drv # "none" =>
          /\ op.name \in NsOps
          /\ op.drv \in DrvOf[op.name]
          /\ op.dev >= 0
          /\ OpSupported
    /\ call.kind = "alloc_list" =>
          /\ op.name \in { "attach", "detach" }
          /\ op.dev >= 0
          /\ OpDev.cdata.ns_manage
          /\ call.ctrlr = OpDev.ctrlr

\* C22 witness: format was refused on a controller that advertises namespace
\* management and not format.
C22_Witness ==
    /\ OpRefused
    /\ op.name = "format"
    /\ OpDev.cdata.ns_manage
    /\ ~OpDev.cdata.format
    /\ op.drv = "none"

\* The operator confirmed at the warning of format_nvm: the answer read
\* there starts with 'y' or 'Y'.
OperatorConfirmed ==
    op.option_in.n = 1 /\ op.option_in.val \in { "y", "Y" }

\* format_nvm returned at one of its checks before the warning.
FormatStoppedEarly ==
    /\ OpEnded
    /\ op.name = "format"
    /\ op.fail \in { "not_found", "unsupported", "ns_not_found",
                     "invalid_input", "invalid_lbaf" }

\* C23: the format command is issued only when the operator confirmed with
\* 'y' or 'Y' at the warning; format_nvm ends with no command issued after any
\* other answer there, after an invalid answer at an earlier prompt and
\* when the namespace does not exist.
C23_FormatOnlyAfterConfirmation ==
    /\ op.drv = "format" => OperatorConfirmed
    /\ ( OpEnded /\ op.name = "format" /\ "confirm" \in op.prompts
         /\ ~OperatorConfirmed ) => op.drv = "none"
    /\ FormatStoppedEarly => op.drv = "none"

====
